---------------------------- MODULE Spec2Model ----------------------------
(***************************************************************************)
(* telewrapper: a supervisor that runs one command under a pseudo-terminal,*)
(* compacts its output into a bounded log ring and renders a size-bounded  *)
(* dashboard text.                                                         *)
(*                                                                         *)
(* Text is a sequence of characters; a character is a one-element string   *)
(* ("a", "\n", "\r") or, for a character TLA+ cannot write, its name       *)
(* ("ESC", "U+1F5A5").  len() of Python counts code points, Len counts     *)
(* elements.                                                               *)
(***************************************************************************)
EXTENDS Integers, Sequences, FiniteSets, TLC

VARIABLES
    log_buffer,        \* ProcessManager.log_buffer: the deque of log lines
    last_op,           \* history: the kind of the operation that ran last
    fed,               \* history: the last lines of the current run of
                       \*   newline-terminated single-line chunks
    nfed,              \* history: the length of that run, up to MAX_LOG_LINES + 1
    command,           \* the command line of the session
    is_running,        \* ProcessManager.is_running
    return_code,       \* ProcessManager.return_code: <<>> (None) or <<n>>
    text,              \* the dashboard text built last (<<>>: none yet)
    stats,             \* the metrics that build read: cpu, mem, gpu_stats
    duration,          \* the elapsed time that build read
    rendered_from,     \* history: is_running, return_code and the ring that
                       \*   the last build read
    rerendered,        \* history: the last build read what the build before
                       \*   it had read
    process,           \* ProcessManager.process: "None" or "Process"
    proc_returncode,   \* process.returncode, set when the loop reaps the child
    child,             \* the child itself: "absent", "alive" or "dead"
    child_code,        \* the exit status of the dead child
    pty,               \* the bytes written to the terminal and not read yet
    nwritten,          \* the number of writes of the child
    sigterm,           \* SIGTERM was sent to the child
    terminated,        \* history: what the last terminate() did: "never",
                       \*   "no_process", "not_running" (nothing done),
                       \*   "signalled" or "raised"
    pump_pc,           \* where ProcessManager._run_process_unix stands
    shutdown_signal,   \* TeleWrapperBot.shutdown_signal
    upd_pc,            \* where telegram_updater stands
    dashboard_message_id,  \* "None" or the id of the dashboard message
    last_message_text, \* the text sent last (<<>>: None)
    transport,         \* history: how the updater stands with the
                       \*   transport: "ok" (no call yet, or the last one
                       \*   delivered), "rate_limited" (the last one raised
                       \*   RetryAfter and that time is not over) or "failed"
                       \*   (the last one raised; a deferral, if any, is over)
    keyboard,          \* the buttons of this session that were delivered
    btn_pc,            \* where handle_button stands
    btn_data,          \* the callback data of the click being handled
    nclicks,           \* the number of clicks so far
    main_pc            \* where main stands

NL == "\n"
CR == "\r"
FF == "\f"
TAB == "\t"
SP == " "

(***************************************************************************)
(* Bounds of the model.                                                    *)
(***************************************************************************)
\* deque(maxlen=MAX_LOG_LINES); 50 in the source, scaled to keep rings small
MAX_LOG_LINES == 2
\* the longest chunk the compactor is fed, over ChunkChars
MaxChunkLen == 3

(***************************************************************************)
(* Python string helpers.                                                  *)
(***************************************************************************)
\* str.isspace() for the characters of the model
Whitespace == {SP, NL, CR, FF, TAB}
\* the line boundaries of str.splitlines() for the characters of the model
LineBoundaries == {NL, CR, FF}

Last(s) == s[Len(s)]
Front(s) == SubSeq(s, 1, Len(s) - 1)

\* s.endswith("\n")
EndsWithNL(s) == Len(s) > 0 /\ Last(s) = NL

\* bool(p.strip()): some character of p is not whitespace
StripNonEmpty(p) == \E i \in 1..Len(p) : p[i] \notin Whitespace

\* data.split("\r"): the fragments between carriage returns, empty ones kept
RECURSIVE SplitCR(_, _, _)
SplitCR(s, i, cur) ==
    IF i > Len(s) THEN <<cur>>
    ELSE IF s[i] = CR THEN <<cur>> \o SplitCR(s, i + 1, <<>>)
    ELSE SplitCR(s, i + 1, Append(cur, s[i]))

\* data.splitlines(keepends=True): "\r\n" is one boundary, no empty last line
RECURSIVE SplitLines(_, _, _)
SplitLines(s, i, cur) ==
    IF i > Len(s) THEN (IF cur = <<>> THEN <<>> ELSE <<cur>>)
    ELSE IF s[i] = CR /\ i < Len(s) /\ s[i + 1] = NL
         THEN <<cur \o <<CR, NL>> >> \o SplitLines(s, i + 2, <<>>)
    ELSE IF s[i] \in LineBoundaries
         THEN <<Append(cur, s[i])>> \o SplitLines(s, i + 1, <<>>)
    ELSE SplitLines(s, i + 1, Append(cur, s[i]))

(***************************************************************************)
(* The bounded log ring: collections.deque(maxlen=MAX_LOG_LINES).          *)
(***************************************************************************)
\* mutant: a deque without maxlen
deque_append_unbounded(buf, x) == Append(buf, x)

\* mutant: a full deque drops its rightmost (newest) item
deque_append_drop_newest(buf, x) ==
    IF Len(buf) >= MAX_LOG_LINES THEN Append(Front(buf), x)
    ELSE Append(buf, x)

\* deque.append(x) with maxlen: a full deque drops its leftmost item first
deque_append(buf, x) ==
    IF MAX_LOG_LINES = 0 THEN <<>>
    ELSE IF Len(buf) >= MAX_LOG_LINES THEN Append(Tail(buf), x)
    ELSE Append(buf, x)

\* mutant: the stale frame is not popped
PopIncomplete_keep(buf) == buf

\* mutant: the discard step pops the last entry whatever its end
PopIncomplete_last(buf) == IF buf # <<>> THEN Front(buf) ELSE buf

\* while log_buffer and not log_buffer[-1].endswith("\n"): log_buffer.pop()
RECURSIVE PopIncomplete(_)
PopIncomplete(buf) ==
    IF buf # <<>> /\ ~EndsWithNL(Last(buf)) THEN PopIncomplete(Front(buf))
    ELSE buf

\* for line in lines: log_buffer.append(line)
RECURSIVE AppendAll(_, _)
AppendAll(buf, lines) ==
    IF lines = <<>> THEN buf
    ELSE AppendAll(deque_append(buf, Head(lines)), Tail(lines))

(***************************************************************************)
(* logs.process_terminal_output(log_buffer, data)                          *)
(***************************************************************************)
\* mutant: the first non-blank fragment is retained instead of the last
process_terminal_output_first(buf, d) ==
    IF \E i \in 1..Len(d) : d[i] = CR
    THEN LET parts == SplitCR(d, 1, <<>>)
             non_empty_parts == SelectSeq(parts, StripNonEmpty)
         IN  IF non_empty_parts # <<>>
             THEN deque_append(PopIncomplete(buf), Head(non_empty_parts))
             ELSE buf
    ELSE AppendAll(buf, SplitLines(d, 1, <<>>))

process_terminal_output(buf, d) ==
    IF \E i \in 1..Len(d) : d[i] = CR
    THEN LET parts == SplitCR(d, 1, <<>>)
             non_empty_parts == SelectSeq(parts, StripNonEmpty)
         IN  IF non_empty_parts # <<>>
             THEN deque_append(PopIncomplete(buf), Last(non_empty_parts))
             ELSE buf
    ELSE AppendAll(buf, SplitLines(d, 1, <<>>))


(***************************************************************************)
(* The lines the wrapper itself appends to the ring.                       *)
(***************************************************************************)
\* str(e) of an exception: one sample text
ExcText == <<"e", "r", "r">>

SIGTERM_LINE ==
    <<NL, "[", "W", "R", "A", "P", "P", "E", "R", "]", SP, "S", "e", "n",
      "t", SP, "S", "I", "G", "T", "E", "R", "M", SP, "t", "o", SP, "p",
      "r", "o", "c", "e", "s", "s", ".", ".", ".", NL>>
KILL_ERROR_PREFIX ==
    <<NL, "[", "W", "R", "A", "P", "P", "E", "R", "]", SP, "E", "r", "r",
      "o", "r", SP, "k", "i", "l", "l", "i", "n", "g", ":", SP>>
BUTTON_ERROR_PREFIX ==
    <<"[", "W", "r", "a", "p", "p", "e", "r", SP, "E", "r", "r", "o", "r",
      "]", SP, "B", "u", "t", "t", "o", "n", SP, "h", "a", "n", "d", "l",
      "e", "r", ":", SP>>

\* mutant: nothing is appended
terminate_append_silent(buf, raised) == buf

\* terminate(), once it has found a running process: the line it appends
\* when process.terminate() returned (raised = FALSE) or raised
terminate_append(buf, raised) ==
    IF raised THEN deque_append(buf, KILL_ERROR_PREFIX \o ExcText \o <<NL>>)
    ELSE deque_append(buf, SIGTERM_LINE)

\* handle_button's except branch: log_buffer.append(f"[Wrapper Error] ...\n")
button_error_append(buf) ==
    deque_append(buf, BUTTON_ERROR_PREFIX \o ExcText \o <<NL>>)

(***************************************************************************)
(* The chunks one os.read() + decode can hand to the compactor.            *)
(***************************************************************************)
ChunkChars == {"a", NL, CR}
Chunks == UNION {[1..k -> ChunkChars] : k \in 1..MaxChunkLen}
\* the chunk of the spec's scenario, "a\rb\rc\n"
ExampleChunks == {<<"a", CR, "b", CR, "c", NL>>}
LogChunks == Chunks \cup ExampleChunks

HasCR(d) == \E i \in 1..Len(d) : d[i] = CR
HasNL(d) == \E i \in 1..Len(d) : d[i] = NL
\* a chunk that is exactly one newline-terminated line
IsSingleLine(d) ==
    /\ Len(d) >= 1
    /\ d[Len(d)] = NL
    /\ \A i \in 1..(Len(d) - 1) : d[i] \notin LineBoundaries

\* the kind of a feed: a chunk without carriage return ("plain"); a carriage
\* return chunk with a line break, with a non-blank fragment ("cr_nl") or
\* without one ("blank_nl"); a carriage return chunk without line break,
\* with a non-blank fragment (a progress frame: "frame", or "frame2" right
\* after another frame) or without one ("blank")
FeedKind(d, before) ==
    LET nonblank == \E i \in 1..Len(d) : d[i] \notin Whitespace
    IN  IF ~HasCR(d) THEN "plain"
        ELSE IF HasNL(d) THEN (IF nonblank THEN "cr_nl" ELSE "blank_nl")
        ELSE IF nonblank
             THEN (IF before \in {"frame", "frame2"} THEN "frame2" ELSE "frame")
        ELSE "blank"

\* the last n items of s
LastN(s, n) == IF Len(s) <= n THEN s ELSE SubSeq(s, Len(s) - n + 1, Len(s))

(***************************************************************************)
(* SpecLog: the ring under its three mutators, with every chunk of        *)
(* LogChunks, while the child runs.                                        *)
(***************************************************************************)
\* return_code is <<>> for None and <<n>> for the exit status n
NoCode == <<>>
\* a short command line with characters that html.escape rewrites
ShortCommand == <<"l", "s", SP, "<", "&">>

\* no dashboard text built yet, no metrics read yet
NoText == <<>>
NoStats == [cpu |-> <<>>, mem |-> <<>>, gpu |-> <<>>]

\* no click is being handled
NoData == [action |-> "", session |-> ""]

histvars == <<last_op, fed, nfed>>
rendervars == <<text, stats, duration, rendered_from, rerendered>>
childvars == <<child, child_code, pty, nwritten, sigterm, terminated>>
pumpvars == <<process, proc_returncode, pump_pc>>
updvars ==
    <<upd_pc, dashboard_message_id, last_message_text, keyboard, transport>>
btnvars == <<btn_pc, btn_data, nclicks>>
sysvars == <<childvars, pumpvars, updvars, btnvars, shutdown_signal, main_pc>>
vars ==
    <<log_buffer, histvars, command, is_running, return_code, rendervars,
      sysvars>>

\* the history variables before any operation
InitHist ==
    /\ last_op = "none"
    /\ fed = <<>>
    /\ nfed = 0

\* nothing was rendered yet
InitUnrendered ==
    /\ text = NoText
    /\ stats = NoStats
    /\ duration = <<>>
    /\ rendered_from = <<>>
    /\ rerendered = FALSE

\* TeleWrapperBot.__init__ and ProcessManager.__init__ of a session that
\* runs ShortCommand
InitSession ==
    /\ command = ShortCommand
    /\ is_running = TRUE
    /\ return_code = NoCode
    /\ InitUnrendered

\* the tasks of main before any of them ran, and no child yet
InitTasks ==
    /\ process = "None"
    /\ proc_returncode = NoCode
    /\ child = "absent"
    /\ child_code = NoCode
    /\ pty = <<>>
    /\ nwritten = 0
    /\ sigterm = FALSE
    /\ terminated = "never"
    /\ pump_pc = "start"
    /\ shutdown_signal = FALSE
    /\ upd_pc = "init"
    /\ dashboard_message_id = "None"
    /\ last_message_text = NoText
    /\ keyboard = {}
    /\ transport = "ok"
    /\ btn_pc = "idle"
    /\ btn_data = NoData
    /\ nclicks = 0
    /\ main_pc = "running"

InitLog ==
    /\ log_buffer = <<>>
    /\ InitHist
    /\ InitSession
    /\ InitTasks

\* the pump's read: process_terminal_output(self.log_buffer, decoded)
LogFeed ==
    \E d \in LogChunks :
        /\ log_buffer' = process_terminal_output(log_buffer, d)
        /\ last_op' = FeedKind(d, last_op)
        /\ IF IsSingleLine(d)
           THEN /\ fed' = LastN(Append(fed, d), MAX_LOG_LINES)
                /\ nfed' = IF nfed > MAX_LOG_LINES THEN nfed ELSE nfed + 1
           ELSE /\ fed' = <<>>
                /\ nfed' = 0
        /\ UNCHANGED <<command, is_running, return_code, rendervars, sysvars>>

\* terminate() on the running child
LogTerminate ==
    \E raised \in BOOLEAN :
        /\ log_buffer' = terminate_append(log_buffer, raised)
        /\ last_op' = "advisory"
        /\ fed' = <<>>
        /\ nfed' = 0
        /\ UNCHANGED <<command, is_running, return_code, rendervars, sysvars>>

\* handle_button's except branch
LogButtonError ==
    /\ log_buffer' = button_error_append(log_buffer)
    /\ last_op' = "error"
    /\ fed' = <<>>
    /\ nfed' = 0
    /\ UNCHANGED <<command, is_running, return_code, rendervars, sysvars>>

NextLog == LogFeed \/ LogTerminate \/ LogButtonError

SpecLog == InitLog /\ [][NextLog]_vars


(***************************************************************************)
(* logs.strip_ansi: re.sub of ESC(?:[@-Z\\-_]|\[[0-?]*[ -/]*[@-~]).        *)
(***************************************************************************)
ESC == "ESC"
\* [0-?]
CsiParam ==
    {"0", "1", "2", "3", "4", "5", "6", "7", "8", "9", ":", ";", "<", "=",
     ">", "?"}
\* [ -/]
CsiInter ==
    {SP, "!", "\"", "#", "$", "%", "&", "'", "(", ")", "*", "+", ",", "-",
     ".", "/"}
\* [@-Z\\-_]
FeFinal ==
    {"@", "A", "B", "C", "D", "E", "F", "G", "H", "I", "J", "K", "L", "M",
     "N", "O", "P", "Q", "R", "S", "T", "U", "V", "W", "X", "Y", "Z", "\\",
     "]", "^", "_"}
\* [@-~]
CsiFinal ==
    FeFinal \cup
    {"[", "U+0060", "a", "b", "c", "d", "e", "f", "g", "h", "i", "j", "k", "l",
     "m", "n", "o", "p", "q", "r", "s", "t", "u", "v", "w", "x", "y", "z",
     "{", "|", "}", "~"}

Min(S) == CHOOSE x \in S : \A y \in S : x <= y

\* the first index at or after k whose character is not in class, or
\* Len(s) + 1: where a greedy class* that starts at k stops
SkipClass(s, k, class) ==
    Min({j \in k..(Len(s) + 1) : j = Len(s) + 1 \/ s[j] \notin class})

\* the index of the last character of the match that starts at the ESC at
\* i, or 0 when the pattern does not match there.  The three classes of the
\* second alternative are disjoint, so the greedy match is the only one.
EscapeEnd(s, i) ==
    IF i + 1 > Len(s) THEN 0
    ELSE IF s[i + 1] \in FeFinal THEN i + 1
    ELSE IF s[i + 1] = "["
         THEN LET q == SkipClass(s, SkipClass(s, i + 2, CsiParam), CsiInter)
              IN  IF q <= Len(s) /\ s[q] \in CsiFinal THEN q ELSE 0
    ELSE 0

\* a match starts with ESC and holds no other ESC, so the matches are the
\* ESC positions where the pattern matches; the text between them is kept
RECURSIVE StripFrom(_, _)
StripFrom(s, from) ==
    LET escs == {i \in from..Len(s) : s[i] = ESC}
    IN  IF escs = {} THEN SubSeq(s, from, Len(s))
        ELSE LET i == Min(escs)
                 e == EscapeEnd(s, i)
             IN  IF e = 0 THEN SubSeq(s, from, i) \o StripFrom(s, i + 1)
                 ELSE SubSeq(s, from, i - 1) \o StripFrom(s, e + 1)

strip_ansi(s) == StripFrom(s, 1)

(***************************************************************************)
(* html.escape(s) with quote=True.                                         *)
(***************************************************************************)
\* mutant: only the ampersand is escaped
escape_char_amp_only(c) ==
    IF c = "&" THEN <<"&", "a", "m", "p", ";">>
    ELSE <<c>>

escape_char(c) ==
    IF c = "&" THEN <<"&", "a", "m", "p", ";">>
    ELSE IF c = "<" THEN <<"&", "l", "t", ";">>
    ELSE IF c = ">" THEN <<"&", "g", "t", ";">>
    ELSE IF c = "\"" THEN <<"&", "q", "u", "o", "t", ";">>
    ELSE IF c = "'" THEN <<"&", "#", "x", "2", "7", ";">>
    ELSE <<c>>

\* character by character; the text is halved so that long texts do not
\* nest deeply
RECURSIVE html_escape(_)
html_escape(s) ==
    IF Len(s) = 0 THEN <<>>
    ELSE IF Len(s) = 1 THEN escape_char(s[1])
    ELSE LET h == Len(s) \div 2
         IN  html_escape(SubSeq(s, 1, h)) \o html_escape(SubSeq(s, h + 1, Len(s)))

(***************************************************************************)
(* str() of an exit code, "".join, slices.                                 *)
(***************************************************************************)
DigitChar(n) == <<"0", "1", "2", "3", "4", "5", "6", "7", "8", "9">>[n + 1]

RECURSIVE NatText(_)
NatText(n) ==
    IF n < 10 THEN <<DigitChar(n)>> ELSE Append(NatText(n \div 10), DigitChar(n % 10))

\* str(n) of an int
IntText(n) == IF n < 0 THEN <<"-">> \o NatText(0 - n) ELSE NatText(n)

CodeText(code) == IF code = NoCode THEN <<"N", "o", "n", "e">> ELSE IntText(code[1])

\* "".join(log_buffer)
RECURSIVE Join(_)
Join(buf) == IF buf = <<>> THEN <<>> ELSE Head(buf) \o Join(Tail(buf))

\* s[-n:] for n > 0
Suffix(s, n) == IF n >= Len(s) THEN s ELSE SubSeq(s, Len(s) - n + 1, Len(s))

(***************************************************************************)
(* TeleWrapperBot.build_dashboard_text                                     *)
(***************************************************************************)
HDR_HOST_OPEN == <<"U+1F5A5", SP, "<", "b", ">">>
HDR_HOST_CLOSE == <<"<", "/", "b", ">", SP, "(", "P", "I", "D", ":", SP>>
HDR_PID_CLOSE == <<")", NL>>
HDR_CMD_OPEN == <<"U+2699", "U+FE0F", SP, "<", "c", "o", "d", "e", ">">>
HDR_CMD_CLOSE == <<"<", "/", "c", "o", "d", "e", ">", NL, NL>>
HDR_STATUS == <<"S", "t", "a", "t", "u", "s", ":", SP>>
HDR_TIME == <<"T", "i", "m", "e", ":", SP>>
HDR_CPU == <<"C", "P", "U", ":", SP>>
HDR_RAM == <<"%", SP, "|", SP, "R", "A", "M", ":", SP>>
HDR_RAM_CLOSE == <<"%", NL>>
CODE_OPEN == <<"<", "c", "o", "d", "e", ">">>
CODE_CLOSE == <<"<", "/", "c", "o", "d", "e", ">", NL>>
HDR_LOG_OPEN ==
    <<NL, "U+1F4DC", SP, "<", "b", ">", "R", "e", "c", "e", "n", "t", SP,
      "L", "o", "g", SP, "(", "L", "a", "s", "t", SP>>
HDR_LOG_CLOSE == <<")", ":", "<", "/", "b", ">", NL>>
PRE_OPEN == <<"<", "p", "r", "e", ">">>
PRE_CLOSE == <<"<", "/", "p", "r", "e", ">">>
trunc_msg ==
    <<NL, ".", ".", ".", "[", "t", "r", "u", "n", "c", "a", "t", "e", "d",
      "]", ".", ".", ".", NL>>
STARTING == <<"S", "t", "a", "r", "t", "i", "n", "g", ".", ".", ".">>
STATUS_RUNNING == <<"U+1F7E2", SP, "R", "u", "n", "n", "i", "n", "g">>
STATUS_DONE_OPEN ==
    <<"U+2705", SP, "D", "o", "n", "e", SP, "(", "E", "x", "i", "t", ":", SP>>
STATUS_ERROR_OPEN ==
    <<"U+274C", SP, "E", "r", "r", "o", "r", SP, "(", "E", "x", "i", "t",
      ":", SP>>
STATUS_CLOSE == <<")">>

\* Telegram's message limit
max_len == 4096
\* the safety margin added to the overhead
SAFETY_MARGIN == 20
\* the MAX_LOG_LINES the header prints: the value of the source
HEADER_LOG_LINES == 50

\* socket.gethostname() and os.getpid(): one sample each
hostname == <<"h", "o", "s", "t">>
pid_text == <<"4", "2">>

\* mutant: every exit is reported as Done
status_icon_done(running, code) ==
    IF running THEN STATUS_RUNNING
    ELSE STATUS_DONE_OPEN \o CodeText(code) \o STATUS_CLOSE

\* mutant: the label follows process.returncode instead of the two fields
\* of the supervisor
status_icon_live(running, code) ==
    IF proc_returncode = NoCode THEN STATUS_RUNNING
    ELSE IF proc_returncode = <<0>>
    THEN STATUS_DONE_OPEN \o CodeText(proc_returncode) \o STATUS_CLOSE
    ELSE STATUS_ERROR_OPEN \o CodeText(proc_returncode) \o STATUS_CLOSE

status_icon(running, code) ==
    IF running THEN STATUS_RUNNING
    ELSE IF code = <<0>> THEN STATUS_DONE_OPEN \o CodeText(code) \o STATUS_CLOSE
    ELSE STATUS_ERROR_OPEN \o CodeText(code) \o STATUS_CLOSE

\* the header up to the status label
header_prefix ==
    HDR_HOST_OPEN \o html_escape(hostname) \o HDR_HOST_CLOSE \o pid_text
        \o HDR_PID_CLOSE
        \o HDR_CMD_OPEN \o html_escape(command) \o HDR_CMD_CLOSE
        \o HDR_STATUS

header(st, dur) ==
    header_prefix \o status_icon(is_running, return_code) \o <<NL>>
        \o HDR_TIME \o dur \o <<NL>>
        \o HDR_CPU \o st.cpu \o HDR_RAM \o st.mem \o HDR_RAM_CLOSE
        \o (IF html_escape(st.gpu) # <<>>
            THEN CODE_OPEN \o html_escape(st.gpu) \o CODE_CLOSE ELSE <<>>)
        \o HDR_LOG_OPEN \o IntText(HEADER_LOG_LINES) \o HDR_LOG_CLOSE

\* logs = html.escape(strip_ansi("".join(log_buffer))) or "Starting..."
escaped_logs ==
    LET logs == html_escape(strip_ansi(Join(log_buffer)))
    IN  IF logs = <<>> THEN STARTING ELSE logs

\* max_len - (len(header) + len("<pre></pre>") + 20)
available_chars(st, dur) ==
    max_len - (Len(header(st, dur)) + Len(PRE_OPEN \o PRE_CLOSE) + SAFETY_MARGIN)

\* mutant: the head of the log is kept instead of its tail
truncate_keep_head(logs, available) ==
    IF Len(logs) > available
    THEN LET keep_len == available - Len(trunc_msg)
         IN  IF keep_len > 0 THEN trunc_msg \o SubSeq(logs, 1, keep_len)
             ELSE trunc_msg
    ELSE logs

\* mutant: the marker is followed by logs[-keep_len:] also when keep_len is
\* 0, which in Python is the whole log
truncate_keep_at_zero(logs, available) ==
    IF Len(logs) > available
    THEN LET keep_len == available - Len(trunc_msg)
         IN  IF keep_len > 0 THEN trunc_msg \o Suffix(logs, keep_len)
             ELSE IF keep_len = 0 THEN trunc_msg \o logs
             ELSE trunc_msg
    ELSE logs

\* the truncation of the log to the available characters
truncate(logs, available) ==
    IF Len(logs) > available
    THEN LET keep_len == available - Len(trunc_msg)
         IN  IF keep_len > 0 THEN trunc_msg \o Suffix(logs, keep_len)
             ELSE trunc_msg
    ELSE logs

build_dashboard_text(st, dur) ==
    header(st, dur)
        \o PRE_OPEN \o truncate(escaped_logs, available_chars(st, dur)) \o PRE_CLOSE

(***************************************************************************)
(* SpecRender: build_dashboard_text on sessions whose command line and log *)
(* are long enough to reach the truncation and the limit.                  *)
(***************************************************************************)
\* c repeated n times
Rep(c, n) == [i \in 1..n |-> c]
\* n characters that differ from their neighbours: "1234567890123..."
Cyc(n) == [i \in 1..n |-> DigitChar(i % 10)]

\* psutil's percentages as str() prints them, and the GPU text: none, or
\* the "GPU Err" of get_stats
StatsSet ==
    {[cpu |-> <<"1", ".", "5">>, mem |-> <<"2", "0", ".", "0">>, gpu |-> g] :
        g \in {<<>>, <<"G", "P", "U", SP, "E", "r", "r">>}}
\* str(timedelta).split(".")[0]
Durations == {<<"0", ":", "0", "0", ":", "0", "5">>,
              <<"0", ":", "0", "0", ":", "1", "0">>}

\* the lengths of the long command lines: with the status Running and no GPU
\* text the header is 129 characters longer than the command line, so these
\* make available_chars 2936, 20 (keep_len 1), 19 (keep_len 0), -1 and -2
CommandLens == {1000, 3916, 3917, 3937, 3938}
RenderCommands == {ShortCommand} \cup {Rep("x", n) : n \in CommandLens}

\* the process states a render can see
RenderStates ==
    {<<TRUE, NoCode>>, <<FALSE, <<0>> >>, <<FALSE, <<7>> >>, <<FALSE, <<0 - 15>> >>}

\* rings of at most two entries; an entry is at most the 4096 bytes of one
\* os.read
RenderRings ==
    { <<>>,
      << <<"o", "k", NL>> >>,
      << Cyc(3000) >>,
      << Append(Cyc(4000), NL), <<"<", "&", ">">> >>,
      << Rep("<", 1200) >>,
      << <<ESC, "[", "3", "1", "m", "r", "e", "d", ESC, "[", "0", "m", NL>>,
         Cyc(4090) >> }

InitRender ==
    /\ log_buffer \in RenderRings
    /\ InitHist
    /\ command \in RenderCommands
    /\ \E ps \in RenderStates : is_running = ps[1] /\ return_code = ps[2]
    /\ InitUnrendered
    /\ InitTasks

\* text = self.build_dashboard_text(), with the metrics st and the elapsed
\* time dur that it reads
Build(st, dur) ==
    /\ text' = build_dashboard_text(st, dur)
    /\ stats' = st
    /\ duration' = dur
    /\ rendered_from' = <<is_running, return_code, log_buffer>>
    /\ rerendered' = /\ text # NoText
                     /\ rendered_from = <<is_running, return_code, log_buffer>>
                     /\ stats = st
                     /\ duration = dur

Render ==
    \E st \in StatsSet : \E dur \in Durations :
        /\ Build(st, dur)
        /\ UNCHANGED <<log_buffer, histvars, command, is_running, return_code,
                       sysvars>>

NextRender == Render

SpecRender == InitRender /\ [][NextRender]_vars

(***************************************************************************)
(* Spec: one session.  main starts telegram_updater as a task and awaits   *)
(* the pump; the handler of the button clicks runs on the same loop.  A    *)
(* step of a task runs from one await to the next; the child is a process  *)
(* of its own.                                                             *)
(***************************************************************************)
MaxWrites == 2
MaxClicks == 1

\* what the child writes at once: a whole line, a progress frame, and text
\* outside ASCII (the two bytes of U+00E9) without a line break
SysWrites == {<<"a", NL>>, <<"b", CR>>, <<"0xC3", "0xA9">>}

\* data.decode("utf-8", errors="replace") on the bytes of SysWrites: a
\* lead byte with its continuation byte is one character, either of them
\* alone is U+FFFD
RECURSIVE decode(_)
decode(data) ==
    IF data = <<>> THEN <<>>
    ELSE IF Head(data) = "0xC3"
    THEN IF Len(data) >= 2 /\ data[2] = "0xA9"
         THEN <<"U+00E9">> \o decode(Tail(Tail(data)))
         ELSE <<"U+FFFD">> \o decode(Tail(data))
    ELSE IF Head(data) = "0xA9" THEN <<"U+FFFD">> \o decode(Tail(data))
    ELSE <<Head(data)>> \o decode(Tail(data))

\* the exit statuses of the child: 0, a failure, and the death by SIGTERM
ExitCodes == {0, 7}
SIGTERM_STATUS == 0 - 15

\* the seconds of an elapsed time "h:mm:ss" below one minute; 0 before the
\* first build
DigitValue(c) == CHOOSE n \in 0..9 : DigitChar(n) = c
Seconds(dur) ==
    IF dur = <<>> THEN 0 ELSE 10 * DigitValue(dur[6]) + DigitValue(dur[7])

\* datetime.now() - self.start_time never goes back
Clock == {d \in Durations : Seconds(d) >= Seconds(duration)}

\* the metrics of the session
SysStats == {[cpu |-> <<"1", ".", "5">>, mem |-> <<"2", "0", ".", "0">>,
              gpu |-> <<>>]}

\* the callback data of a click: action and session token
Click(a, k) == [action |-> a, session |-> k]
ButtonActions == {"refresh", "kill", "exit"}

\* self.process = await asyncio.create_subprocess_shell(...); os.close(slave_fd)
Spawn ==
    /\ pump_pc = "start"
    /\ main_pc = "running"
    /\ process' = "Process"
    /\ child' = "alive"
    /\ pump_pc' = "loop"
    /\ UNCHANGED <<log_buffer, histvars, command, is_running, return_code,
                   rendervars, child_code, pty, nwritten, sigterm, terminated,
                   proc_returncode, updvars, btnvars, shutdown_signal, main_pc>>

\* create_subprocess_shell raises: the finally closes the terminal and the
\* exception leaves run() and main
SpawnFails ==
    /\ pump_pc = "start"
    /\ main_pc = "running"
    /\ pump_pc' = "failed"
    /\ main_pc' = "crashed"
    /\ UNCHANGED <<log_buffer, histvars, command, is_running, return_code,
                   rendervars, childvars, process, proc_returncode, updvars,
                   btnvars, shutdown_signal>>

\* the child writes to the terminal; what it writes after the pump closed
\* its side is lost
ChildWrite ==
    \E d \in SysWrites :
        /\ child = "alive"
        /\ nwritten < MaxWrites
        /\ pty' = IF pump_pc = "loop" THEN pty \o d ELSE pty
        /\ nwritten' = nwritten + 1
        /\ UNCHANGED <<log_buffer, histvars, command, is_running, return_code,
                       rendervars, child, child_code, sigterm, terminated,
                       pumpvars, updvars, btnvars, shutdown_signal, main_pc>>

\* the child exits by itself, or dies of the SIGTERM it was sent
ChildExit ==
    \E c \in ExitCodes \cup (IF sigterm THEN {SIGTERM_STATUS} ELSE {}) :
        /\ child = "alive"
        /\ child' = "dead"
        /\ child_code' = <<c>>
        /\ UNCHANGED <<log_buffer, histvars, command, is_running, return_code,
                       rendervars, pty, nwritten, sigterm, terminated, pumpvars,
                       updvars, btnvars, shutdown_signal, main_pc>>

\* the loop's child watcher sets process.returncode
ChildReaped ==
    /\ child = "dead"
    /\ proc_returncode = NoCode
    /\ proc_returncode' = child_code
    /\ UNCHANGED <<log_buffer, histvars, command, is_running, return_code,
                   rendervars, childvars, process, pump_pc, updvars, btnvars,
                   shutdown_signal, main_pc>>

\* mutant: the pump yields to the loop between the pop of the stale frame and
\* the append of the new one, so the other tasks run on the popped ring
PumpRead_yields_after_pop ==
    /\ pump_pc = "loop"
    /\ pty # <<>>
    /\ log_buffer' = IF HasCR(decode(pty)) THEN PopIncomplete(log_buffer)
                     ELSE process_terminal_output(log_buffer, decode(pty))
    /\ pty' = <<>>
    /\ pump_pc' = IF proc_returncode # NoCode THEN "wait" ELSE "loop"
    /\ UNCHANGED <<histvars, command, is_running, return_code, rendervars,
                   child, child_code, nwritten, sigterm, terminated, process,
                   proc_returncode, updvars, btnvars, shutdown_signal, main_pc>>

\* one turn of the while loop with data to read: os.read, decode,
\* process_terminal_output; then the drain and the break if the child was
\* reaped, else asyncio.sleep(0.01)
PumpRead ==
    /\ pump_pc = "loop"
    /\ pty # <<>>
    /\ log_buffer' = process_terminal_output(log_buffer, decode(pty))
    /\ pty' = <<>>
    /\ pump_pc' = IF proc_returncode # NoCode THEN "wait" ELSE "loop"
    /\ UNCHANGED <<histvars, command, is_running, return_code, rendervars,
                   child, child_code, nwritten, sigterm, terminated, process,
                   proc_returncode, updvars, btnvars, shutdown_signal, main_pc>>

\* mutant: the loop goes on after the end of the stream
PumpHangup_spin ==
    /\ pump_pc = "loop"
    /\ pty = <<>>
    /\ child = "dead"
    /\ UNCHANGED vars

\* mutant: the loop is left at the exit of the child without the read of
\* what is left in the terminal
PumpHangup_no_drain ==
    /\ pump_pc = "loop"
    /\ child = "dead"
    /\ pump_pc' = "wait"
    /\ UNCHANGED <<log_buffer, histvars, command, is_running, return_code,
                   rendervars, childvars, process, proc_returncode, updvars,
                   btnvars, shutdown_signal, main_pc>>

\* one turn of the while loop on the terminal of a dead child with nothing
\* left to read: os.read returns nothing or raises OSError, break
PumpHangup ==
    /\ pump_pc = "loop"
    /\ pty = <<>>
    /\ child = "dead"
    /\ pump_pc' = "wait"
    /\ UNCHANGED <<log_buffer, histvars, command, is_running, return_code,
                   rendervars, childvars, process, proc_returncode, updvars,
                   btnvars, shutdown_signal, main_pc>>

\* one turn of the while loop in which os.read raises OSError although the
\* child lives: except OSError: break, and the finally closes the terminal
\* with what was not read
PumpReadError ==
    /\ pump_pc = "loop"
    /\ child = "alive"
    /\ pty' = <<>>
    /\ pump_pc' = "wait"
    /\ UNCHANGED <<log_buffer, histvars, command, is_running, return_code,
                   rendervars, child, child_code, nwritten, sigterm, terminated,
                   process, proc_returncode, updvars, btnvars, shutdown_signal,
                   main_pc>>

\* mutant: the flag is cleared before the status is stored, with an await
\* in between
PumpWait_flag_first ==
    /\ pump_pc = "wait"
    /\ proc_returncode # NoCode
    /\ is_running' = FALSE
    /\ pump_pc' = "done"
    /\ UNCHANGED <<log_buffer, histvars, command, return_code, rendervars,
                   childvars, process, proc_returncode, updvars, btnvars,
                   shutdown_signal, main_pc>>

\* self.return_code = await self.process.wait(); self.is_running = False
PumpWait ==
    /\ pump_pc = "wait"
    /\ proc_returncode # NoCode
    /\ return_code' = proc_returncode
    /\ is_running' = FALSE
    /\ pump_pc' = "done"
    /\ UNCHANGED <<log_buffer, histvars, command, rendervars, childvars,
                   process, proc_returncode, updvars, btnvars, shutdown_signal,
                   main_pc>>

\* mutant: the keyboard carries the exit button whatever the running flag
reply_markup_always_exit == "exit"

\* get_keyboard(): the second button of the keyboard built with the text
reply_markup == IF rendered_from[1] THEN "kill" ELSE "exit"

\* telegram_updater up to its first await: the initial text and send_message
UpdaterStart ==
    \E st \in SysStats : \E dur \in Clock :
        /\ upd_pc = "init"
        /\ main_pc = "running"
        /\ Build(st, dur)
        /\ upd_pc' = "sending"
        /\ UNCHANGED <<log_buffer, histvars, command, is_running, return_code,
                       childvars, pumpvars, dashboard_message_id,
                       last_message_text, keyboard, transport, btnvars,
                       shutdown_signal, main_pc>>

\* send_message returns the message
SendOk ==
    /\ upd_pc = "sending"
    /\ dashboard_message_id' = "Message"
    /\ last_message_text' = text
    /\ keyboard' = keyboard \cup {reply_markup}
    /\ transport' = "ok"
    /\ upd_pc' = "sleeping"
    /\ UNCHANGED <<log_buffer, histvars, command, is_running, return_code,
                   rendervars, childvars, pumpvars, btnvars, shutdown_signal,
                   main_pc>>

\* mutant: after a failed first send the updater goes on to its loop
SendFails_goes_on ==
    /\ upd_pc = "sending"
    /\ transport' = "failed"
    /\ upd_pc' = "sleeping"
    /\ UNCHANGED <<log_buffer, histvars, command, is_running, return_code,
                   rendervars, childvars, pumpvars, dashboard_message_id,
                   last_message_text, keyboard, btnvars, shutdown_signal,
                   main_pc>>

\* send_message raises: the updater returns
SendFails ==
    /\ upd_pc = "sending"
    /\ transport' = "failed"
    /\ upd_pc' = "stopped"
    /\ UNCHANGED <<log_buffer, histvars, command, is_running, return_code,
                   rendervars, childvars, pumpvars, dashboard_message_id,
                   last_message_text, keyboard, btnvars, shutdown_signal,
                   main_pc>>

\* after asyncio.sleep(update_interval): if self.shutdown_signal: break
UpdaterStop ==
    /\ upd_pc = "sleeping"
    /\ shutdown_signal
    /\ upd_pc' = "stopped"
    /\ UNCHANGED <<log_buffer, histvars, command, is_running, return_code,
                   rendervars, childvars, pumpvars, dashboard_message_id,
                   last_message_text, keyboard, transport, btnvars,
                   shutdown_signal, main_pc>>

\* after the sleep: the text is built and equals the text sent last, continue
UpdaterSkip ==
    \E st \in SysStats : \E dur \in Clock :
        /\ upd_pc = "sleeping"
        /\ ~shutdown_signal
        /\ dashboard_message_id # "None"
        /\ Build(st, dur)
        /\ build_dashboard_text(st, dur) = last_message_text
        /\ UNCHANGED <<log_buffer, histvars, command, is_running, return_code,
                       childvars, pumpvars, updvars, btnvars, shutdown_signal,
                       main_pc>>

\* after the sleep: the text is built and differs, edit_message_text
UpdaterEdit ==
    \E st \in SysStats : \E dur \in Clock :
        /\ upd_pc = "sleeping"
        /\ ~shutdown_signal
        /\ dashboard_message_id # "None"
        /\ Build(st, dur)
        /\ build_dashboard_text(st, dur) # last_message_text
        /\ upd_pc' = "editing"
        /\ UNCHANGED <<log_buffer, histvars, command, is_running, return_code,
                       childvars, pumpvars, dashboard_message_id,
                       last_message_text, keyboard, transport, btnvars,
                       shutdown_signal, main_pc>>

\* edit_message_text returns
EditOk ==
    /\ upd_pc = "editing"
    /\ last_message_text' = text
    /\ keyboard' = keyboard \cup {reply_markup}
    /\ transport' = "ok"
    /\ upd_pc' = "sleeping"
    /\ UNCHANGED <<log_buffer, histvars, command, is_running, return_code,
                   rendervars, childvars, pumpvars, dashboard_message_id,
                   btnvars, shutdown_signal, main_pc>>

\* mutant: the text of a failed edit is recorded as sent
EditFails_recorded ==
    /\ upd_pc = "editing"
    /\ transport' = "failed"
    /\ last_message_text' = text
    /\ upd_pc' = "sleeping"
    /\ UNCHANGED <<log_buffer, histvars, command, is_running, return_code,
                   rendervars, childvars, pumpvars, dashboard_message_id,
                   keyboard, btnvars, shutdown_signal, main_pc>>

\* edit_message_text raises BadRequest, NetworkError, TimedOut or another
\* Exception: printed or passed, the loop goes on
EditFails ==
    /\ upd_pc = "editing"
    /\ transport' = "failed"
    /\ upd_pc' = "sleeping"
    /\ UNCHANGED <<log_buffer, histvars, command, is_running, return_code,
                   rendervars, childvars, pumpvars, dashboard_message_id,
                   last_message_text, keyboard, btnvars, shutdown_signal,
                   main_pc>>

\* mutant: RetryAfter is handled like the other failures, without the sleep
EditRetryAfter_no_sleep ==
    /\ upd_pc = "editing"
    /\ transport' = "rate_limited"
    /\ upd_pc' = "sleeping"
    /\ UNCHANGED <<log_buffer, histvars, command, is_running, return_code,
                   rendervars, childvars, pumpvars, dashboard_message_id,
                   last_message_text, keyboard, btnvars, shutdown_signal,
                   main_pc>>

\* edit_message_text raises RetryAfter: asyncio.sleep(e.retry_after)
EditRetryAfter ==
    /\ upd_pc = "editing"
    /\ transport' = "rate_limited"
    /\ upd_pc' = "backoff"
    /\ UNCHANGED <<log_buffer, histvars, command, is_running, return_code,
                   rendervars, childvars, pumpvars, dashboard_message_id,
                   last_message_text, keyboard, btnvars, shutdown_signal,
                   main_pc>>

\* the sleep of retry_after seconds is over: back to the top of the loop
BackoffDone ==
    /\ upd_pc = "backoff"
    /\ transport' = "failed"
    /\ upd_pc' = "sleeping"
    /\ UNCHANGED <<log_buffer, histvars, command, is_running, return_code,
                   rendervars, childvars, pumpvars, dashboard_message_id,
                   last_message_text, keyboard, btnvars, shutdown_signal,
                   main_pc>>

\* mutant: the guard is missing
terminate_unguarded ==
    /\ log_buffer' = terminate_append(log_buffer, proc_returncode # NoCode)
    /\ sigterm' = (sigterm \/ proc_returncode = NoCode)
    /\ terminated' = IF proc_returncode = NoCode THEN "signalled" ELSE "raised"

\* ProcessManager.terminate(): with a process handle and the running flag
\* set it signals the child and appends the advisory line, else it does
\* nothing.  process.terminate() raises ProcessLookupError once the loop has
\* reaped the child.
terminate ==
    IF process # "None" /\ is_running
    THEN /\ log_buffer' =
                terminate_append(log_buffer, proc_returncode # NoCode)
         /\ sigterm' = (sigterm \/ proc_returncode = NoCode)
         /\ terminated' =
                IF proc_returncode = NoCode THEN "signalled" ELSE "raised"
    ELSE /\ terminated' =
                IF process = "None" THEN "no_process" ELSE "not_running"
         /\ UNCHANGED <<log_buffer, sigterm>>

\* the clicks that can arrive: a button of a keyboard delivered in this
\* session, or any button of a keyboard of another session of the same bot
Clicks ==
    {Click(a, "other") : a \in ButtonActions}
        \cup (IF dashboard_message_id # "None"
              THEN {Click(a, "this") : a \in {"refresh"} \cup keyboard}
              ELSE {})

\* mutant: the session of the click is not compared
ButtonClick_unchecked ==
    \E d \in Clicks :
        /\ btn_pc = "idle"
        /\ nclicks < MaxClicks
        /\ main_pc \in {"running", "waiting"}
        /\ nclicks' = nclicks + 1
        /\ btn_data' = d
        /\ btn_pc' = "answering"
        /\ UNCHANGED <<log_buffer, histvars, command, is_running, return_code,
                       rendervars, childvars, pumpvars, updvars,
                       shutdown_signal, main_pc>>

\* handle_button up to its first await: the data is split and the session
\* compared, then query.answer
ButtonClick ==
    \E d \in Clicks :
        /\ btn_pc = "idle"
        /\ nclicks < MaxClicks
        /\ main_pc \in {"running", "waiting"}
        /\ nclicks' = nclicks + 1
        /\ btn_data' = d
        /\ btn_pc' = IF d.session # "this" THEN "alerting" ELSE "answering"
        /\ UNCHANGED <<log_buffer, histvars, command, is_running, return_code,
                       rendervars, childvars, pumpvars, updvars,
                       shutdown_signal, main_pc>>

\* handle_button on callback data without ":": data[1] raises IndexError
\* before any await and the except branch appends to the log
ButtonMalformed ==
    /\ btn_pc = "idle"
    /\ nclicks < MaxClicks
    /\ main_pc \in {"running", "waiting"}
    /\ nclicks' = nclicks + 1
    /\ log_buffer' = button_error_append(log_buffer)
    /\ UNCHANGED <<histvars, command, is_running, return_code, rendervars,
                   childvars, pumpvars, updvars, btn_pc, btn_data,
                   shutdown_signal, main_pc>>

\* query.answer("Sessione scaduta o non valida") returns: return
AlertOk ==
    /\ btn_pc = "alerting"
    /\ btn_pc' = "idle"
    /\ btn_data' = NoData
    /\ UNCHANGED <<log_buffer, histvars, command, is_running, return_code,
                   rendervars, childvars, pumpvars, updvars, nclicks,
                   shutdown_signal, main_pc>>

\* an await of the handler raises: the except branch appends to the log
ButtonFails ==
    /\ btn_pc \in {"alerting", "answering", "closing"}
    /\ log_buffer' = button_error_append(log_buffer)
    /\ btn_pc' = "idle"
    /\ btn_data' = NoData
    /\ UNCHANGED <<histvars, command, is_running, return_code, rendervars,
                   childvars, pumpvars, updvars, nclicks, shutdown_signal,
                   main_pc>>

\* query.answer() returns, action "refresh": pass
AnswerRefresh ==
    /\ btn_pc = "answering"
    /\ btn_data.action = "refresh"
    /\ btn_pc' = "idle"
    /\ btn_data' = NoData
    /\ UNCHANGED <<log_buffer, histvars, command, is_running, return_code,
                   rendervars, childvars, pumpvars, updvars, nclicks,
                   shutdown_signal, main_pc>>

\* mutant: the kill records the exit itself, whatever was recorded
AnswerKill_records_exit ==
    /\ btn_pc = "answering"
    /\ btn_data.action = "kill"
    /\ is_running' = FALSE
    /\ return_code' = <<SIGTERM_STATUS>>
    /\ btn_pc' = "idle"
    /\ btn_data' = NoData
    /\ UNCHANGED <<log_buffer, histvars, command, rendervars, childvars,
                   pumpvars, updvars, nclicks, shutdown_signal, main_pc>>

\* query.answer() returns, action "kill": ProcessManager.terminate().
\* process.terminate() raises ProcessLookupError once the child was reaped.
AnswerKill ==
    /\ btn_pc = "answering"
    /\ btn_data.action = "kill"
    /\ terminate
    /\ btn_pc' = "idle"
    /\ btn_data' = NoData
    /\ UNCHANGED <<histvars, command, is_running, return_code, rendervars,
                   child, child_code, pty, nwritten, pumpvars, updvars,
                   nclicks, shutdown_signal, main_pc>>

\* query.answer() returns, action "exit": the shutdown signal is set and the
\* farewell edit awaited
AnswerExit ==
    /\ btn_pc = "answering"
    /\ btn_data.action = "exit"
    /\ shutdown_signal' = TRUE
    /\ btn_pc' = "closing"
    /\ UNCHANGED <<log_buffer, histvars, command, is_running, return_code,
                   rendervars, childvars, pumpvars, updvars, btn_data, nclicks,
                   main_pc>>

\* query.edit_message_text of the farewell returns
ExitEditOk ==
    /\ btn_pc = "closing"
    /\ btn_pc' = "idle"
    /\ btn_data' = NoData
    /\ UNCHANGED <<log_buffer, histvars, command, is_running, return_code,
                   rendervars, childvars, pumpvars, updvars, nclicks,
                   shutdown_signal, main_pc>>

\* await wrapper.run_process() returns: main enters its wait loop
MainWaits ==
    /\ main_pc = "running"
    /\ pump_pc = "done"
    /\ main_pc' = "waiting"
    /\ UNCHANGED <<log_buffer, histvars, command, is_running, return_code,
                   rendervars, childvars, pumpvars, updvars, btnvars,
                   shutdown_signal>>

\* while not wrapper.shutdown_signal ends: await app.updater.stop()
MainStops ==
    /\ main_pc = "waiting"
    /\ shutdown_signal
    /\ main_pc' = "stopping"
    /\ UNCHANGED <<log_buffer, histvars, command, is_running, return_code,
                   rendervars, childvars, pumpvars, updvars, btnvars,
                   shutdown_signal>>

\* mutant: main goes on to app.stop() without updater_task.cancel()
CancelUpdater_forgets ==
    /\ main_pc = "stopping"
    /\ upd_pc \notin {"stopped", "cancelled"}
    /\ main_pc' = "stopped"
    /\ UNCHANGED <<log_buffer, histvars, command, is_running, return_code,
                   rendervars, childvars, pumpvars, updvars, btnvars,
                   shutdown_signal>>

\* updater_task.cancel(), or the loop that closes after the crash of main:
\* the updater ends at the await where it stands
CancelUpdater ==
    /\ main_pc \in {"stopping", "crashed"}
    /\ upd_pc \notin {"stopped", "cancelled"}
    /\ upd_pc' = "cancelled"
    /\ main_pc' = IF main_pc = "stopping" THEN "stopped" ELSE main_pc
    /\ UNCHANGED <<log_buffer, histvars, command, is_running, return_code,
                   rendervars, childvars, pumpvars, dashboard_message_id,
                   last_message_text, keyboard, transport, btnvars,
                   shutdown_signal>>

\* main ends with the updater already returned
MainEnds ==
    /\ main_pc = "stopping"
    /\ upd_pc = "stopped"
    /\ main_pc' = "stopped"
    /\ UNCHANGED <<log_buffer, histvars, command, is_running, return_code,
                   rendervars, childvars, pumpvars, updvars, btnvars,
                   shutdown_signal>>

Init ==
    /\ log_buffer = <<>>
    /\ InitHist
    /\ InitSession
    /\ InitTasks

Next ==
    \/ Spawn \/ SpawnFails \/ ChildWrite \/ ChildExit \/ ChildReaped
    \/ PumpRead \/ PumpHangup \/ PumpReadError \/ PumpWait
    \/ UpdaterStart \/ SendOk \/ SendFails \/ UpdaterStop \/ UpdaterSkip
    \/ UpdaterEdit \/ EditOk \/ EditFails \/ EditRetryAfter \/ BackoffDone
    \/ ButtonClick \/ ButtonMalformed \/ AlertOk \/ ButtonFails \/ AnswerRefresh \/ AnswerKill
    \/ AnswerExit \/ ExitEditOk
    \/ MainWaits \/ MainStops \/ CancelUpdater \/ MainEnds

Spec == Init /\ [][Next]_vars

(***************************************************************************)
(* SpecPump: ProcessManager alone, run() with the child and the loop's     *)
(* child watcher, and terminate() called at any moment.                    *)
(***************************************************************************)
\* a call of ProcessManager.terminate()
Terminate ==
    /\ terminate
    /\ UNCHANGED <<histvars, command, is_running, return_code, rendervars,
                   child, child_code, pty, nwritten, pumpvars, updvars,
                   btnvars, shutdown_signal, main_pc>>

NextPump ==
    \/ Spawn \/ SpawnFails \/ ChildWrite \/ ChildExit \/ ChildReaped
    \/ PumpRead \/ PumpHangup \/ PumpReadError \/ PumpWait
    \/ Terminate

SpecPump == Init /\ [][NextPump]_vars

\* the loop runs the pump task whenever it can take a step, and its child
\* watcher once the child is dead
FairPump ==
    /\ SpecPump
    /\ WF_vars(PumpRead \/ PumpHangup \/ PumpWait)
    /\ WF_vars(ChildReaped)

(***************************************************************************)
(* Claims about the ring and the compactor (SpecLog).                      *)
(***************************************************************************)

\* C1: the log ring never holds more than MAX_LOG_LINES entries, whatever
\* mix of chunk ingestion, terminate() advisory lines and button-handler
\* error lines mutates it.
C1_RingBounded == Len(log_buffer) <= MAX_LOG_LINES

\* C1 witness: more single-line chunks were fed in a row than the ring
\* holds, and the ring is full.
C1_Witness == nfed > MAX_LOG_LINES /\ Len(log_buffer) = MAX_LOG_LINES

\* C2: lines enter the ring in the order read and eviction is FIFO: after a
\* run of k newline-terminated single-line chunks the ring ends with those
\* lines in their order, and for k > MAX_LOG_LINES the ring is exactly the
\* last MAX_LOG_LINES of them.
C2_FifoOrder ==
    /\ nfed > MAX_LOG_LINES => log_buffer = fed
    /\ nfed <= MAX_LOG_LINES =>
           /\ Len(fed) = nfed
           /\ LastN(log_buffer, nfed) = fed

\* C2 witness: a run longer than the ring, whose retained lines differ, so
\* that their order shows.
C2_Witness ==
    /\ nfed > MAX_LOG_LINES
    /\ log_buffer = fed
    /\ \E i \in 1..(Len(fed) - 1) : fed[i] # fed[i + 1]

\* d[i..j] is the last non-blank fragment of d split on "\r": it lies
\* between carriage returns (or the ends of d), holds none, is not blank,
\* and nothing but whitespace and carriage returns follows it
IsLastNonBlankFragment(d, i, j) ==
    /\ 1 <= i /\ i <= j /\ j <= Len(d)
    /\ i = 1 \/ d[i - 1] = CR
    /\ j = Len(d) \/ d[j + 1] = CR
    /\ \A k \in i..j : d[k] # CR
    /\ \E k \in i..j : d[k] \notin Whitespace
    /\ \A k \in (j + 1)..Len(d) : d[k] \in Whitespace

\* s is a run of consecutive entries of buf
IsSliceOf(s, buf) ==
    \E k \in 1..(Len(buf) + 1) : \E m \in (k - 1)..Len(buf) : s = SubSeq(buf, k, m)

\* C3: for every chunk with a carriage return and a non-blank fragment, fed
\* to any reachable ring, the compactor adds exactly one entry, the last
\* non-blank fragment of the chunk split on "\r": the ring then ends with
\* that fragment and holds nothing else that was not in the ring before.
\* "a\rb\rc\n" fed to an empty ring yields exactly the one line "c\n".
C3_LastFragmentOnly ==
    /\ \A d \in LogChunks :
          (HasCR(d) /\ \E k \in 1..Len(d) : d[k] \notin Whitespace) =>
              LET r == process_terminal_output(log_buffer, d)
              IN  /\ r # <<>>
                  /\ \E i \in 1..Len(d) : \E j \in i..Len(d) :
                         /\ IsLastNonBlankFragment(d, i, j)
                         /\ Last(r) = SubSeq(d, i, j)
                  /\ IsSliceOf(Front(r), log_buffer)
    /\ process_terminal_output(<<>>, <<"a", CR, "b", CR, "c", NL>>)
           = << <<"c", NL>> >>
    /\ last_op \in {"frame", "frame2", "cr_nl"} =>
           log_buffer # <<>> /\ StripNonEmpty(Last(log_buffer))

\* C3 witness: "a\rb\rc\n" was fed and the ring is the one line "c\n".
C3_Witness ==
    /\ last_op = "cr_nl"
    /\ log_buffer = << <<"c", NL>> >>

\* the entries of buf that end in a line break
CompleteLines(buf) == SelectSeq(buf, EndsWithNL)

\* the entries of buf before its trailing run of incomplete entries
CommittedPrefix(buf) ==
    LET m == CHOOSE i \in 0..Len(buf) :
                 /\ i = 0 \/ EndsWithNL(buf[i])
                 /\ \A k \in (i + 1)..Len(buf) : ~EndsWithNL(buf[k])
    IN  SubSeq(buf, 1, m)

\* C4 as stated: a chunk with a carriage return and no line break leaves
\* the ring with the complete lines it had before plus at most one trailing
\* incomplete entry.
C4_Original ==
    [][last_op' \in {"frame", "frame2", "blank"} =>
          \E t \in {<<>>} \cup {<<log_buffer'[i]>> : i \in 1..Len(log_buffer')} :
              /\ t # <<>> => ~EndsWithNL(t[1])
              /\ log_buffer' = CompleteLines(log_buffer) \o t]_vars

\* C4 amended: a chunk with a carriage return, no line break and a non-blank
\* fragment leaves the ring with the entries that preceded its trailing run
\* of incomplete entries, less the oldest ones the capacity evicts, followed
\* by exactly one incomplete entry, the latest frame; such a chunk with only
\* blank fragments leaves the ring unchanged.
C4_OneSlot ==
    [][/\ last_op' \in {"frame", "frame2"} =>
             /\ log_buffer' # <<>>
             /\ ~EndsWithNL(Last(log_buffer'))
             /\ Front(log_buffer') =
                    LastN(CommittedPrefix(log_buffer), MAX_LOG_LINES - 1)
       /\ last_op' = "blank" => log_buffer' = log_buffer]_vars

\* C4 witness: two frames were fed in a row and the ring holds a complete
\* line followed by the one latest frame.
C4_Witness ==
    /\ last_op = "frame2"
    /\ Len(log_buffer) = 2
    /\ EndsWithNL(log_buffer[1])
    /\ ~EndsWithNL(log_buffer[2])

\* the texts without carriage return that can be split in two chunks
PlainTexts == {d \in Chunks : ~HasCR(d) /\ Len(d) >= 2}

\* C5 as stated: feeding a text without carriage return as two consecutive
\* chunks, split at any position, leaves the ring as feeding it whole does.
C5_ChunkBoundaryIndependence ==
    \A t \in PlainTexts : \A p \in 1..(Len(t) - 1) :
        process_terminal_output(
            process_terminal_output(log_buffer, SubSeq(t, 1, p)),
            SubSeq(t, p + 1, Len(t)))
        = process_terminal_output(log_buffer, t)

\* C6 as stated: at most one ring entry lacks a terminating line break, and
\* it is the last entry.
C6_OneTrailingIncomplete ==
    \A i \in 1..(Len(log_buffer) - 1) : EndsWithNL(log_buffer[i])

(***************************************************************************)
(* Claims about the renderer (SpecRender).                                 *)
(***************************************************************************)
\* C7: the rendered report never exceeds the budget of 4096 characters,
\* whatever the header and the log are.  (Violated: the header alone can be
\* longer than the budget leaves, and it is never shortened.)
C7_WithinBudget == Len(text) <= max_len

\* the log budget of the last build, and the body it put between the tags
C8_Budget == max_len - Len(header(stats, duration)) - 11 - 20
C8_Body ==
    SubSeq(text, Len(header(stats, duration)) + Len(PRE_OPEN) + 1,
           Len(text) - Len(PRE_CLOSE))
C8_Truncating ==
    /\ text # NoText
    /\ Len(escaped_logs) > C8_Budget
    /\ C8_Budget > Len(trunc_msg)

\* C8: when the escaped log is longer than the log budget and the budget is
\* longer than the marker, the body is the marker followed by the last
\* (budget - len(marker)) characters of the log, and is as long as the budget.
C8_TailKept ==
    C8_Truncating =>
        LET n == C8_Budget - Len(trunc_msg)
            e == escaped_logs
        IN  /\ C8_Body = trunc_msg \o SubSeq(e, Len(e) - n + 1, Len(e))
            /\ Len(C8_Body) = C8_Budget
            /\ C8_Body[Len(C8_Body)] = e[Len(e)]

\* a truncated report whose log is long and varied enough to tell its head
\* from its tail
C8_Witness ==
    /\ C8_Truncating
    /\ Len(C8_Body) = C8_Budget
    /\ C8_Budget > 1000
    /\ escaped_logs[1] # escaped_logs[Len(escaped_logs) - (C8_Budget - Len(trunc_msg)) + 1]

(***************************************************************************)
(* Claims about the session (Spec).                                        *)
(***************************************************************************)
\* a step in which telegram_updater builds the text
RenderStep == UpdaterStart \/ UpdaterSkip \/ UpdaterEdit

StatusLabel(t) ==
    LET from == Len(header_prefix) + 1
        to == CHOOSE k \in from..Len(t) :
                  t[k] = NL /\ \A j \in from..(k - 1) : t[j] # NL
    IN  SubSeq(t, from, to - 1)
DoneLabel(n) == STATUS_DONE_OPEN \o IntText(n) \o STATUS_CLOSE
ErrorLabel(n) == STATUS_ERROR_OPEN \o IntText(n) \o STATUS_CLOSE
FailureCodes == (ExitCodes \cup {SIGTERM_STATUS}) \ {0}

\* C10: the status label of every text built is the Running label exactly
\* when the child is not recorded as exited, the Done label exactly when it
\* is recorded as exited with code 0, and the Error label with the code
\* exactly when it is recorded as exited with a code other than 0.
C10_StatusLabel ==
    [][RenderStep =>
        /\ (StatusLabel(text') = STATUS_RUNNING) <=> is_running'
        /\ (StatusLabel(text') = DoneLabel(0))
               <=> (~is_running' /\ return_code' = <<0>>)
        /\ \A n \in FailureCodes :
               (StatusLabel(text') = ErrorLabel(n))
                   <=> (~is_running' /\ return_code' = <<n>>)
        /\ is_running' \/ return_code' # NoCode]_vars

\* the child exited with 7 and the text built after that says so
C10_Witness ==
    /\ child_code = <<7>>
    /\ rendered_from # <<>>
    /\ rendered_from[2] = <<7>>
    /\ StatusLabel(text) = ErrorLabel(7)

(***************************************************************************)
(* Claims about the supervisor state and the button handler (Spec).        *)
(***************************************************************************)
\* C11: once the exit is recorded (is_running false, with a return code), no
\* step sets is_running again or changes the return code.
C11_ExitedIsTerminal ==
    [][(~is_running /\ return_code # NoCode)
       => (is_running' = is_running /\ return_code' = return_code)]_vars

\* the exit is still recorded after a text was built from it, the exit
\* button was handled and main stopped
C11_Witness ==
    /\ ~is_running
    /\ return_code # NoCode
    /\ rendered_from # <<>>
    /\ ~rendered_from[1]
    /\ shutdown_signal
    /\ main_pc = "stopped"

\* a step of handle_button
HandlerStep ==
    \/ ButtonClick \/ ButtonMalformed \/ AlertOk \/ ButtonFails
    \/ AnswerRefresh \/ AnswerKill \/ AnswerExit \/ ExitEditOk

\* a step of handle_button on a click that carries the token of another
\* session
StaleStep ==
    /\ HandlerStep
    /\ btn_data.session = "other" \/ btn_data'.session = "other"

\* C12: handling a click whose token is not the session's changes neither
\* the process handle, the running flag, the exit code, the signals sent to
\* the child, nor the shutdown flag, whatever its action.
C12_StaleTokenInert ==
    [][StaleStep =>
        UNCHANGED <<process, proc_returncode, is_running, return_code,
                    sigterm, terminated, shutdown_signal>>]_vars

\* a kill of another session was compared and is being answered with the
\* alert while the child runs unsignalled
C12_Witness ==
    /\ btn_pc = "alerting"
    /\ btn_data = Click("kill", "other")
    /\ process = "Process"
    /\ child = "alive"
    /\ is_running
    /\ ~sigterm
    /\ ~shutdown_signal

\* C13: a click that is rejected (token of another session, or data that
\* does not split into action and token) changes nothing, the log ring
\* included, also when answering it fails.  (Violated: the except branch of
\* the handler appends a line to the ring.)
C13_RejectionInert ==
    [][(StaleStep \/ ButtonMalformed) =>
        UNCHANGED <<process, proc_returncode, is_running, return_code,
                    sigterm, shutdown_signal, log_buffer>>]_vars

(***************************************************************************)
(* Claims about terminate() and the pump (SpecPump, Spec).                 *)
(***************************************************************************)
\* a call of terminate(), by itself or from the kill button
TerminateCall == Terminate \/ AnswerKill

\* C14: terminate() without a process handle, or after the exit was
\* recorded, sends no signal and leaves the running flag, the exit code and
\* the ring as they are.
C14_TerminateNoop ==
    [][(TerminateCall /\ (process = "None" \/ ~is_running)) =>
        UNCHANGED <<sigterm, is_running, return_code, log_buffer>>]_vars

\* terminate() was called after the exit was recorded, and the child was
\* never signalled
C14_Witness ==
    /\ terminated = "not_running"
    /\ ~is_running
    /\ return_code # NoCode
    /\ ~sigterm

\* the two advisory lines of terminate()
AdvisoryLines == {SIGTERM_LINE, KILL_ERROR_PREFIX \o ExcText \o <<NL>>}

\* C15: terminate() on a running child leaves the ring with one more line at
\* its end, an advisory line (signal sent, or signalling failed), and changes
\* neither the running flag nor the exit code.
C15_OneAdvisoryLine ==
    [][(TerminateCall /\ process # "None" /\ is_running) =>
        /\ log_buffer' # <<>>
        /\ Last(log_buffer') \in AdvisoryLines
        /\ Front(log_buffer') = LastN(log_buffer, MAX_LOG_LINES - 1)
        /\ UNCHANGED <<is_running, return_code>>]_vars

\* the kill button signalled the running child: the ring ends with the
\* advisory line and the supervisor still says running
C15_Witness ==
    /\ terminated = "signalled"
    /\ sigterm
    /\ is_running
    /\ return_code = NoCode
    /\ log_buffer # <<>>
    /\ Last(log_buffer) = SIGTERM_LINE

\* C16: whenever the child exits, with any status, the pump leaves its loop
\* and the exit is recorded: is_running false and return_code the status of
\* the child.  (FairPump: the loop keeps running the pump task.)
C16_ExitRecorded ==
    (child = "dead")
        ~> (pump_pc = "done" /\ ~is_running /\ return_code = child_code)

\* the child died of the SIGTERM and the supervisor recorded it
C16_Witness ==
    /\ child = "dead"
    /\ child_code = <<SIGTERM_STATUS>>
    /\ pump_pc = "done"
    /\ ~is_running
    /\ return_code = child_code

\* C17: after a failed spawn the running flag is false, the exit code is set
\* and not 0, and the ring holds a line about the failure.  (Violated: the
\* exception leaves run() with the fields as __init__ set them.)
C17_SpawnFailureReported ==
    pump_pc = "failed" =>
        /\ ~is_running
        /\ return_code # NoCode
        /\ return_code # <<0>>
        /\ log_buffer # <<>>

\* C18: a read error while the child lives ends only the read of that
\* cycle: the pump stays in its loop.  (Violated: except OSError: break.)
C18_ReadErrorRecovered == [][PumpReadError => pump_pc' = "loop"]_vars

(***************************************************************************)
(* Claims about the updater and the transport (Spec).                      *)
(***************************************************************************)
\* C19: an edit that fails as not modified or for the network changes
\* neither the text recorded as sent, the message id, the process state, the
\* ring nor the shutdown flag, and the updater goes back to its sleep; the
\* text stays unsent, so a build that reads the same again is handed to the
\* transport again.
C19_FailureInert ==
    [][/\ EditFails =>
            /\ UNCHANGED <<last_message_text, dashboard_message_id, process,
                           proc_returncode, is_running, return_code,
                           log_buffer, shutdown_signal, text>>
            /\ upd_pc' = "sleeping"
            /\ text' # last_message_text'
       /\ (transport = "failed" /\ RenderStep /\ rerendered')
              => upd_pc' = "editing"]_vars

\* after a call of the transport that failed, the same text was built from
\* the same inputs and is being sent again
C19_Witness ==
    /\ transport = "failed"
    /\ upd_pc = "editing"
    /\ rerendered
    /\ dashboard_message_id = "Message"
    /\ text # last_message_text

\* C20: from a rate-limited response until the sleep of retry_after is over
\* the updater builds no text and calls the transport for none.
C20_RateLimitRespected ==
    [][transport = "rate_limited"
       => (~RenderStep /\ upd_pc' \in {"backoff", "sleeping", "cancelled"}
           /\ (upd_pc' = "sleeping" => transport' = "failed"))]_vars

\* the updater is deferring after a rate-limited response while the ring
\* has changed since the text it could not send
C20_Witness ==
    /\ transport = "rate_limited"
    /\ upd_pc = "backoff"
    /\ rendered_from[3] # log_buffer

(***************************************************************************)
(* C21 .. C30                                                              *)
(***************************************************************************)
\* The session with the event loop running main: asyncio.sleep(1) of the wait
\* loop returns and the statements after the loop have no unbounded await.
FairMain ==
    Spec /\ WF_vars(MainWaits \/ MainStops \/ CancelUpdater \/ MainEnds)

TerminalLabel(n) == IF n = 0 THEN DoneLabel(0) ELSE ErrorLabel(n)

\* C22: whenever shutdown has been requested, up to the end of main, the
\* child has exited and the report pushed last (the text recorded as sent)
\* carries the Done or Error label of the child's real exit status, whatever
\* the updater was doing when it was stopped or cancelled.
C22_FinalStatePushed ==
    shutdown_signal =>
        /\ child_code # NoCode
        /\ return_code = child_code
        /\ last_message_text # NoText
        /\ StatusLabel(last_message_text) = TerminalLabel(child_code[1])

\* main has ended with the updater cancelled in the middle of an edit: the
\* text built last was never pushed, and the text pushed last says Error 7
C22_Witness ==
    /\ main_pc = "stopped"
    /\ upd_pc = "cancelled"
    /\ child_code = <<7>>
    /\ text # last_message_text
    /\ StatusLabel(last_message_text) = ErrorLabel(7)

\* the rings one whole update of the ring can leave: one call of
\* process_terminal_output on the chunk read, or one line of the wrapper
WholeUpdates(buf, data) ==
    {process_terminal_output(buf, decode(data)),
     terminate_append(buf, TRUE), terminate_append(buf, FALSE),
     button_error_append(buf)}

\* C23: every step that changes the ring applies one whole update to it (the
\* compactor run to its end on the whole chunk read, or one appended line),
\* and a build reads the ring of the state it runs in and leaves it as it
\* is: no build runs on a ring between the pop and the append of one update
\* or between the lines of one chunk.
C23_ConsistentSnapshot ==
    [][/\ log_buffer' # log_buffer
              => log_buffer' \in WholeUpdates(log_buffer, pty)
       /\ RenderStep
              => (rendered_from'[3] = log_buffer /\ log_buffer' = log_buffer)
      ]_vars

\* the build before read the ring with a progress frame as its last entry;
\* the pump has since popped that frame and appended the next one, and the
\* updater is about to build again
C23_Witness ==
    /\ rendered_from # <<>>
    /\ rendered_from[3] = <<(<<"U+00E9">>)>>
    /\ log_buffer = <<(<<"b">>)>>
    /\ upd_pc = "sleeping"
    /\ dashboard_message_id = "Message"

\* C24: the handler's step on a refresh click with the session's token
\* leaves the running flag, the exit code, the ring and the shutdown flag as
\* they are and has the report built from the state of that moment.
C24_RefreshRenders ==
    [][AnswerRefresh =>
        /\ UNCHANGED <<is_running, return_code, log_buffer, shutdown_signal>>
        /\ rendered_from' = <<is_running, return_code, log_buffer>>]_vars

\* main is past its wait loop, or was left by an exception
MainEnded == main_pc \in {"stopping", "stopped", "crashed"}

\* C25: main has left its run, and the transport is being torn down, only
\* with the shutdown flag set and the exit of the child recorded.
C25_EndsOnlyAfterExitAndFlag ==
    MainEnded => (shutdown_signal /\ ~is_running /\ child_code # NoCode)

\* C26: when the log budget of a build is not longer than the marker and
\* the escaped log is longer than the budget, the body between the tags is
\* the marker and nothing else.
C26_MarkerAlone ==
    (/\ text # NoText
     /\ Len(escaped_logs) > C8_Budget
     /\ C8_Budget - Len(trunc_msg) <= 0)
        => C8_Body = trunc_msg

\* a build whose budget is exactly as long as the marker, on a ring of 3000
\* characters: the body is the marker
C26_Witness ==
    /\ text # NoText
    /\ C8_Budget = Len(trunc_msg)
    /\ Len(escaped_logs) >= 3000
    /\ C8_Body = trunc_msg

\* the number of line breaks of a text, and whether they are all at its end
NLCount(s) == Cardinality({i \in 1..Len(s) : s[i] = NL})
OneLinePerEntry(s) == NLCount(s) = 0 \/ (NLCount(s) = 1 /\ s[Len(s)] = NL)

\* C27: for every chunk with a carriage return, a line break and a non-blank
\* fragment, fed to any reachable ring, the entry the compactor commits
\* holds at most one line break, and holds it as its last character.
C27_OneLinePerEntry ==
    \A d \in LogChunks :
        (HasCR(d) /\ HasNL(d) /\ \E k \in 1..Len(d) : d[k] \notin Whitespace)
            => OneLinePerEntry(Last(process_terminal_output(log_buffer, d)))

\* C28: the step that sets is_running to False is taken by the pump after
\* process.wait(), with nothing left unread in the terminal, and records the
\* child's status; from then on nothing of the supervisor changes the ring.
C28_DoneAfterDrain ==
    [][/\ (is_running /\ ~is_running')
              => /\ pump_pc = "wait" /\ pump_pc' = "done"
                 /\ pty = <<>>
                 /\ return_code' = child_code
                 /\ log_buffer' = log_buffer
       /\ ~is_running
              => (log_buffer' = log_buffer /\ pty' = <<>> /\ pump_pc' = "done")
      ]_vars

\* the child wrote a line and a progress frame and exited with 7; both are
\* in the ring and the exit is recorded
C28_Witness ==
    /\ ~is_running
    /\ return_code = <<7>>
    /\ nwritten = 2
    /\ log_buffer = << <<"a", NL>>, <<"b">> >>
    /\ terminated = "never"

\* C29: the body a build puts between <pre> and </pre> has no "<" and no
\* ">" character, whatever the ring holds and wherever the escaped log was
\* cut.
C29_NoRawMarkup ==
    text # NoText =>
        LET body == C8_Body
        IN  \A i \in 1..Len(body) : body[i] \notin {"<", ">"}

\* a ring of 1200 "<" was escaped and cut inside an entity: what follows the
\* marker is the end of "&lt;", not its start
C29_Witness ==
    /\ text # NoText
    /\ Len(log_buffer) = 1
    /\ Len(log_buffer[1]) = 1200
    /\ log_buffer[1][1] = "<"
    /\ Len(escaped_logs) > C8_Budget
    /\ C8_Budget > Len(trunc_msg)
    /\ C8_Body[Len(trunc_msg) + 1] # "&"
    /\ C8_Body[Len(C8_Body)] = ";"

\* C30: in every state is_running is False exactly when return_code is set,
\* and every build read the two fields in such a state.
C30_FlagMatchesCode ==
    /\ ~is_running <=> return_code # NoCode
    /\ rendered_from # <<>>
           => (~rendered_from[1] <=> rendered_from[2] # NoCode)

\* the exit with status 7 is recorded, a build has read it and the handler
\* of a button is running
C30_Witness ==
    /\ ~is_running
    /\ return_code = <<7>>
    /\ rendered_from # <<>>
    /\ rendered_from[1] = FALSE
    /\ btn_pc = "answering"

(***************************************************************************)
(* C31 .. C32                                                              *)
(***************************************************************************)
\* C31: for every chunk with a carriage return fed to any reachable ring
\* (rings with the lines of terminate() included): when the chunk has a
\* non-blank fragment, the entries up to the last one that ends in a line
\* break are still there, in their order, before the entry added, less the
\* oldest one when they filled the ring; when all its fragments are blank,
\* the ring is left as it was.
C31_CommittedKept ==
    \A d \in LogChunks :
        HasCR(d) =>
            LET r == process_terminal_output(log_buffer, d)
                c == CommittedPrefix(log_buffer)
            IN  IF \E i \in 1..Len(d) : d[i] \notin Whitespace
                THEN \E k \in {0, 1} :
                         /\ k = 1 => Len(c) = MAX_LOG_LINES
                         /\ Len(r) = Len(c) - k + 1
                         /\ SubSeq(r, 1, Len(c) - k) = SubSeq(c, k + 1, Len(c))
                ELSE r = log_buffer

\* the line of terminate() is still first in the ring after two progress
\* frames in a row: the second frame popped the first and nothing else
C31_Witness ==
    /\ last_op = "frame2"
    /\ Len(log_buffer) = 2
    /\ log_buffer[1] = SIGTERM_LINE
    /\ ~EndsWithNL(log_buffer[2])

\* the first send raised: the transport failed and no message was ever sent
InitialSendFailed == dashboard_message_id = "None" /\ transport = "failed"

\* C32: once the first send has failed the updater has returned, no text is
\* recorded as sent and no keyboard was delivered, no click carries the
\* session's token, the shutdown flag is not set and main has not left its
\* wait loop, in every later state of the session.
C32_NoControlAfterFailedSend ==
    InitialSendFailed =>
        /\ upd_pc = "stopped"
        /\ last_message_text = NoText
        /\ keyboard = {}
        /\ btn_data.session # "this"
        /\ ~shutdown_signal
        /\ main_pc \notin {"stopping", "stopped"}

\* the first send failed, the child has exited with 0 and the exit is
\* recorded, a click of another session was answered, and main waits
C32_Witness ==
    /\ InitialSendFailed
    /\ child_code = <<0>>
    /\ ~is_running
    /\ pump_pc = "done"
    /\ nclicks = 1
    /\ btn_pc = "idle"
    /\ main_pc = "waiting"

=============================================================================
